---- MODULE Spec2Model ----
(***************************************************************************)
(* Model of the vending machine controller (vending_machine/__init__.py),  *)
(* its monetary inventory and change search (payments.py) and its stock    *)
(* (products.py).  One action per public trigger of VendingMachine; an     *)
(* action is the whole synchronous call, including the on_enter callbacks  *)
(* and the nested "advance" triggers they fire.                            *)
(***************************************************************************)
EXTENDS Integers, Sequences, FiniteSets, TLC

VARIABLES
    state,              \* machine state of the model (States enum)
    selected_product,   \* VendingMachine.selected_product
    customer_balance,   \* VendingMachine.customer_balance
    inventory,          \* MonetaryInventory.inventory : denomination value -> count
    products,           \* Stock.products : product id -> FIFO queue of Product units
    catalogue,          \* Stock.catalogue : product id -> price (ProductInfo.price)
    delivered,          \* DeliverySystem calls made during the last trigger call
    error,              \* exception the last trigger call raised to its caller
    logged,             \* transitions on_state_change logged during the last trigger call
    inserted,           \* value of the units accepted by insert in the transaction in progress
    owed_amount,        \* find_optimal_change: argument
    monetary_inventory, \* find_optimal_change: argument
    config,             \* find_optimal_change: result
    enqueued,           \* Stock on its own: per product id, the units add_products has put
    dequeued,           \* Stock on its own: per product id, the units get_product has returned
    denomination_value, \* Denomination on its own: the value given to the constructor
    denomination_made,  \* Denomination on its own: what the constructor gave
    ledger              \* totals since construction: cash inserted, cash sent, prices of
                        \* the products dispatched (kept where the totals are followed)

vars == <<state, selected_product, customer_balance, inventory, products,
          delivered, error, logged, inserted,
          catalogue, owed_amount, monetary_inventory, config, enqueued, dequeued,
          denomination_value, denomination_made, ledger>>

machineVars == <<state, selected_product, customer_balance, inventory, products,
                 delivered, error, logged, inserted, ledger>>

solverVars == <<owed_amount, monetary_inventory, config>>

stockVars == <<catalogue, enqueued, dequeued>>

denominationVars == <<denomination_value, denomination_made>>

\* Python's None, for selected_product (product ids are positive integers)
None == 0

-----------------------------------------------------------------------------
(* Bounds of the model *)

MaxBalance == 3     \* insert is explored while the balance stays <= MaxBalance
MaxCount == 2       \* insert / reload_change explored while a count stays <= MaxCount
MaxStock == 1       \* add_products explored while a queue stays within MaxStock units
MaxOwed == 12       \* owed amounts given to find_optimal_change on its own
MaxQuantity == 3    \* counts of the inventories given to find_optimal_change on its own
MaxUnits == 3       \* units put into a Stock driven on its own
MaxValue == 350     \* values -MaxValue..MaxValue given to Denomination on its own
MaxTens == 6        \* owed amounts 0, 10, .. 10 * MaxTens given to find_optimal_change
MaxInserted == 3    \* the totals are followed while the cash inserted stays <= MaxInserted
MaxSent == 4        \* the totals are followed until the cash sent reaches MaxSent

-----------------------------------------------------------------------------
(* States *)

States == {"IDLE", "MAINTENANCE_MODE", "PRODUCT_SELECTION", "COLLECTING_PAYMENT",
           "CONFIRM_SMALLER_CHANGE", "DISPATCHING_PRODUCT", "RETURNING_CHANGE"}

-----------------------------------------------------------------------------
(* payments.py *)

\* mutant of DenominationValid: the value 0 is refused too
DenominationValidPositive(value) == ~(value <= 0 \/ (value > 100 /\ value % 100 # 0))

\* Denomination.__init__ accepts the value
DenominationValid(value) == ~(value < 0 \/ (value > 100 /\ value % 100 # 0))

\* Denomination(value): the object, or the ValueError of the constructor
Denomination(value) ==
    IF DenominationValid(value)
    THEN [error |-> "none", value |-> value]
    ELSE [error |-> "ValueError", value |-> value]

\* no Denomination constructed yet
NotConstructed == [error |-> "not constructed", value |-> 0]

\* MonetaryInventory._supported_denominantions
Supported == {200, 100, 50, 20, 10, 5, 2, 1}

\* lowest_owed default of backtrack_best_change (sys.maxsize, capped to TLC's integers)
sys_maxsize == 2147483647

\* {} as a solution / configuration: no denomination has a quantity
EmptySolution == [d \in Supported |-> 0]

\* None as a solution (best_solution: Dict[int, int] | None)
NoSolution == [d \in Supported |-> -1]

\* None as the result of find_optimal_change (ChangeConfiguration | None)
NoConfiguration == [owed |-> -1, configuration |-> NoSolution]

\* mutant of Min: the count of the denomination is not looked at
MinIgnoringCount(a, b) == a

Min(a, b) == IF a < b THEN a ELSE b

MaxOf(S) == CHOOSE x \in S : \A y \in S : y <= x

RECURSIVE SortedAscending(_)
\* mutant of SortedReverse: sorted(...) without reverse=True
SortedAscending(S) ==
    IF S = {} THEN <<>>
    ELSE SortedAscending(S \ {MaxOf(S)}) \o <<MaxOf(S)>>

RECURSIVE SortedReverse(_)
\* sorted(..., reverse=True)
SortedReverse(S) ==
    IF S = {} THEN <<>>
    ELSE LET m == MaxOf(S) IN <<m>> \o SortedReverse(S \ {m})

RECURSIVE backtrack_best_change(_, _, _, _, _)
RECURSIVE UnitsLoop(_, _, _, _, _, _, _)
RECURSIVE DenominationsLoop(_, _, _, _, _, _, _)

\* the inner loop after the recursive call returned r = [solution, diff]:
\* return an exact solution at once, else keep the strictly better one and go on
UnitsLoopReturned(r, denomination, n, owed, change, current_solution, best_solution, lowest_owed) ==
    IF r.diff = 0
    THEN [returned |-> TRUE, solution |-> r.solution, diff |-> 0]
    ELSE IF r.diff < lowest_owed
         THEN UnitsLoop(denomination, n - 1, owed, change, current_solution,
                        r.solution, r.diff)
         ELSE UnitsLoop(denomination, n - 1, owed, change, current_solution,
                        best_solution, lowest_owed)

\* the inner loop: number_of_monetary_units from n down to 1
UnitsLoop(denomination, n, owed, change, current_solution, best_solution, lowest_owed) ==
    IF n < 1
    THEN [returned |-> FALSE, solution |-> best_solution, diff |-> lowest_owed]
    ELSE UnitsLoopReturned(
             backtrack_best_change(owed - n * denomination,
                                   [change EXCEPT ![denomination] = 0],
                                   [current_solution EXCEPT ![denomination] = n],
                                   best_solution, lowest_owed),
             denomination, n, owed, change, current_solution, best_solution, lowest_owed)

\* mutant of DenominationsLoopReturned: the search ends with the first denomination
\* (greedy, the smaller denominations are never tried as a start)
DenominationsLoopGreedy(r, denominations, i, owed, change, current_solution) ==
    [solution |-> r.solution, diff |-> r.diff]

\* the outer loop after the inner loop of denominations[i] ended with r
DenominationsLoopReturned(r, denominations, i, owed, change, current_solution) ==
    IF r.returned
    THEN [solution |-> r.solution, diff |-> 0]
    ELSE DenominationsLoop(denominations, i + 1, owed, change, current_solution,
                           r.solution, r.diff)

\* the outer loop: denominations[i..] in descending order
DenominationsLoop(denominations, i, owed, change, current_solution, best_solution, lowest_owed) ==
    IF i > Len(denominations)
    THEN [solution |-> best_solution, diff |-> lowest_owed]
    ELSE DenominationsLoopReturned(
             UnitsLoop(denominations[i],
                       Min(owed \div denominations[i], change[denominations[i]]),
                       owed, change, current_solution, best_solution, lowest_owed),
             denominations, i, owed, change, current_solution)

backtrack_best_change(owed, change, current_solution, best_solution, lowest_owed) ==
    IF owed = 0
    THEN [solution |-> current_solution, diff |-> 0]
    ELSE DenominationsLoop(SortedReverse({k \in DOMAIN change : change[k] > 0}), 1,
                           owed, change, current_solution,
                           IF owed < lowest_owed THEN current_solution ELSE best_solution,
                           IF owed < lowest_owed THEN owed ELSE lowest_owed)

\* mutant of ChangeConfiguration: "if result" instead of "if result is not None",
\* so that an empty result counts as none
ChangeConfigurationIfTruthy(r) ==
    IF r.solution # NoSolution /\ r.solution # EmptySolution
    THEN [owed |-> r.diff, configuration |-> r.solution]
    ELSE NoConfiguration

\* ChangeConfiguration(diff, configuration) of a result of the search, or None
ChangeConfiguration(r) ==
    IF r.solution # NoSolution
    THEN [owed |-> r.diff, configuration |-> r.solution]
    ELSE NoConfiguration

find_optimal_change(owed, inv) ==
    ChangeConfiguration(
        backtrack_best_change(owed, inv, EmptySolution, NoSolution, sys_maxsize))

\* ChangeConfiguration.is_exact
is_exact(c) == c.owed = 0

\* mutant of add_monetary_unit: the supported set is not looked at
add_monetary_unit_unchecked(inv, denomination) ==
    [error |-> "none", inventory |-> [inv EXCEPT ![denomination] = @ + 1]]

\* MonetaryInventory.add_monetary_unit: [error, inventory]
add_monetary_unit(inv, denomination) ==
    IF denomination \notin Supported
    THEN [error |-> "ValueError", inventory |-> inv]
    ELSE [error |-> "none", inventory |-> [inv EXCEPT ![denomination] = @ + 1]]

\* mutant of add_cash: one loop that checks and adds key by key, so the keys before
\* the first unsupported one are added
add_cash_key_by_key(inv, supply) ==
    IF \E cash \in DOMAIN supply : cash \notin Supported
    THEN [error |-> "ValueError",
          inventory |-> [d \in DOMAIN inv |->
                            IF d \in DOMAIN supply
                               /\ \A cash \in DOMAIN supply : cash \notin Supported => d < cash
                            THEN inv[d] + supply[d] ELSE inv[d]]]
    ELSE [error |-> "none",
          inventory |-> [d \in DOMAIN inv |->
                            IF d \in DOMAIN supply THEN inv[d] + supply[d] ELSE inv[d]]]

\* MonetaryInventory.add_cash: [error, inventory]
add_cash(inv, supply) ==
    IF \E cash \in DOMAIN supply : cash \notin Supported
    THEN [error |-> "ValueError", inventory |-> inv]
    ELSE [error |-> "none",
          inventory |-> [d \in DOMAIN inv |->
                            IF d \in DOMAIN supply THEN inv[d] + supply[d] ELSE inv[d]]]

RECURSIVE remove_change_loop(_, _, _, _)
\* MonetaryInventory.remove_change, items[i..] of the change still to remove
remove_change_loop(inv, change, items, i) ==
    IF i > Len(items) THEN [error |-> "none", inventory |-> inv]
    ELSE IF inv[items[i]] < change[items[i]]
         THEN [error |-> "RuntimeError", inventory |-> inv]
         ELSE remove_change_loop([inv EXCEPT ![items[i]] = @ - change[items[i]]],
                                 change, items, i + 1)

\* MonetaryInventory.remove_change: [error, inventory]; the items of the change
\* are taken largest denomination first
remove_change(inv, change) ==
    remove_change_loop(inv, change, SortedReverse({d \in DOMAIN change : change[d] > 0}), 1)

-----------------------------------------------------------------------------
(* products.py *)

ProductIDs == {1, 2, 3}

\* Product(id); unit tells apart the objects of one id (Product.__eq__ does not)
Product(id, unit) == [id |-> id, unit |-> unit]

\* mutant of get_price_of: an id without catalogue entry has the price 0
get_price_of_or_zero(product_id) ==
    IF product_id \in DOMAIN catalogue
    THEN [error |-> "none", price |-> catalogue[product_id]]
    ELSE [error |-> "none", price |-> 0]

\* Stock.get_price_of: [error, price]
get_price_of(product_id) ==
    IF product_id \in DOMAIN catalogue
    THEN [error |-> "none", price |-> catalogue[product_id]]
    ELSE [error |-> "RuntimeError", price |-> 0]

RECURSIVE stock_add_products(_, _, _)
\* Stock.add_products: every product is put at the tail of the queue of its id
stock_add_products(queues, ps, i) ==
    IF i > Len(ps) THEN queues
    ELSE stock_add_products([queues EXCEPT ![ps[i].id] = Append(@, ps[i])], ps, i + 1)

\* mutant of get_product: the unit put last is taken (a stack)
get_product_last(queues, product_id) ==
    IF product_id \notin DOMAIN queues \/ queues[product_id] = <<>>
    THEN [error |-> "Empty", product |-> None, queues |-> queues]
    ELSE [error |-> "none", product |-> queues[product_id][Len(queues[product_id])],
          queues |-> [queues EXCEPT ![product_id] = SubSeq(@, 1, Len(@) - 1)]]

\* Stock.get_product: Queue.get_nowait on the queue of the id; [error, product, queues]
get_product(queues, product_id) ==
    IF product_id \notin DOMAIN queues \/ queues[product_id] = <<>>
    THEN [error |-> "Empty", product |-> None, queues |-> queues]
    ELSE [error |-> "none", product |-> Head(queues[product_id]),
          queues |-> [queues EXCEPT ![product_id] = Tail(@)]]

\* Stock.get_offer: the catalogue entries of the ids with a unit in stock
get_offer(cat, queues) ==
    [p \in {q \in DOMAIN cat : queues[q] # <<>>} |-> cat[p]]

\* mutant of update_catalogue: every old entry is kept, in stock or not
update_catalogue_keep_all(cat, queues, new_catalogue) ==
    new_catalogue @@ cat

\* Stock.update_catalogue: get_offer() | new_catalogue, the new entries win
update_catalogue(cat, queues, new_catalogue) ==
    new_catalogue @@ get_offer(cat, queues)

-----------------------------------------------------------------------------
(* vending_machine/__init__.py: conditions and actions.                    *)
(* m is the machine during a call: [state, selected_product,               *)
(* customer_balance, inventory, products, delivered, logged, error];       *)
(* error is the exception in flight ("none" when there is none).           *)
(* kwargs is the record of keyword arguments of the trigger call.          *)

NoKwargs == [product_id |-> None, denomination |-> 0, supply |-> <<>>, products |-> <<>>]

\* mutant of not_enough_money_of: a balance equal to the price counts as not enough
not_enough_money_of_or_equal(m, total) ==
    IF total.error # "none"
    THEN [error |-> total.error, value |-> FALSE]
    ELSE [error |-> "none", value |-> total.price >= m.customer_balance]

\* VendingMachine._not_enough_money, total = get_price_of(selected_product)
not_enough_money_of(m, total) ==
    IF total.error # "none"
    THEN [error |-> total.error, value |-> FALSE]
    ELSE [error |-> "none", value |-> total.price > m.customer_balance]

\* mutant of _not_enough_money: insufficient funds raise instead of failing the guard
_not_enough_money_raises(m) ==
    IF m.selected_product = None
    THEN [error |-> "AssertionError", value |-> FALSE]
    ELSE IF not_enough_money_of(m, get_price_of(m.selected_product)).value
         THEN [error |-> "RuntimeError", value |-> FALSE]
         ELSE not_enough_money_of(m, get_price_of(m.selected_product))

\* VendingMachine._not_enough_money: [error, value]
_not_enough_money(m) ==
    IF m.selected_product = None
    THEN [error |-> "AssertionError", value |-> FALSE]
    ELSE not_enough_money_of(m, get_price_of(m.selected_product))

\* VendingMachine._can_return_exact_change, c = find_optimal_change(owed_change, inventory)
exact_change_of(c) ==
    IF c = NoConfiguration
    THEN [error |-> "none", value |-> FALSE]
    ELSE [error |-> "none", value |-> is_exact(c)]

\* VendingMachine._can_return_exact_change, price = get_price_of(selected_product)
can_return_exact_change_of(m, price) ==
    IF price.error # "none"
    THEN [error |-> price.error, value |-> FALSE]
    ELSE exact_change_of(
             find_optimal_change(m.customer_balance - price.price, m.inventory))

\* VendingMachine._can_return_exact_change: [error, value]
_can_return_exact_change(m) ==
    IF m.selected_product = None
    THEN [error |-> "AssertionError", value |-> FALSE]
    ELSE can_return_exact_change_of(m, get_price_of(m.selected_product))

\* VendingMachine._select
_select(m, kwargs) == [m EXCEPT !.selected_product = kwargs.product_id]

\* an insert that does not keep the unit: the inventory stays as it was
inserted_unit_discarded(m, r) == [m EXCEPT !.error = r.error]

\* VendingMachine._insert, r = add_monetary_unit(Denomination(denomination))
inserted_unit(m, r) == [m EXCEPT !.inventory = r.inventory, !.error = r.error]

\* VendingMachine._insert: the balance is raised before the unit is checked
_insert(m, kwargs) ==
    IF ~DenominationValid(kwargs.denomination)
    THEN [m EXCEPT !.customer_balance = @ + kwargs.denomination, !.error = "ValueError"]
    ELSE inserted_unit([m EXCEPT !.customer_balance = @ + kwargs.denomination],
                       add_monetary_unit(m.inventory, kwargs.denomination))

\* VendingMachine._add_products
_add_products(m, kwargs) ==
    [m EXCEPT !.products = stock_add_products(m.products, kwargs.products, 1)]

\* VendingMachine._reload_change, r = add_cash(supply)
reloaded_change(m, r) == [m EXCEPT !.inventory = r.inventory, !.error = r.error]

\* VendingMachine._reload_change
_reload_change(m, kwargs) == reloaded_change(m, add_cash(m.inventory, kwargs.supply))

\* VendingMachine._dispatch_product, r = get_product(selected_product)
dispatched_product(m, r) ==
    IF r.error # "none"
    THEN [m EXCEPT !.error = r.error]
    ELSE [m EXCEPT !.products = r.queues,
                   !.selected_product = None,
                   !.delivered = Append(@, [call |-> "dispatch",
                                            product |-> r.product,
                                            cash |-> EmptySolution])]

\* VendingMachine._dispatch_product
_dispatch_product(m) == dispatched_product(m, get_product(m.products, m.selected_product))

\* VendingMachine._charge_customer, price = get_price_of(selected_product)
charged_customer(m, price) ==
    IF price.error # "none"
    THEN [m EXCEPT !.error = price.error]
    ELSE [m EXCEPT !.customer_balance = @ - price.price]

\* VendingMachine._charge_customer
_charge_customer(m) ==
    IF m.selected_product # None
    THEN charged_customer(m, get_price_of(m.selected_product))
    ELSE m

\* VendingMachine._return_change, r = remove_change(c.configuration), then send_cash(c)
removed_change(m, c, r) ==
    IF r.error # "none"
    THEN [m EXCEPT !.inventory = r.inventory, !.error = r.error]
    ELSE [m EXCEPT !.inventory = r.inventory,
                   !.delivered = Append(@, [call |-> "send_cash",
                                            product |-> None,
                                            cash |-> c.configuration])]

\* VendingMachine._return_change, c = find_optimal_change(customer_balance, inventory)
returned_change(m, c) ==
    IF c = NoConfiguration \/ c.configuration = EmptySolution
    THEN m
    ELSE removed_change(m, c, remove_change(m.inventory, c.configuration))

\* VendingMachine._return_change
_return_change(m) ==
    IF m.customer_balance = 0
    THEN m
    ELSE returned_change(m, find_optimal_change(m.customer_balance, m.inventory))

-----------------------------------------------------------------------------
(* The state machine: states, transitions, and the dispatch of a trigger   *)
(* by transitions.Machine as VendingMachine.__init__ configures it         *)
(* (not queued, invalid triggers not ignored, no on_exception handler).    *)

\* VendingMachine._get_states: the on_enter callbacks of each state
on_enter(s) ==
    CASE s = "DISPATCHING_PRODUCT" -> <<"_dispatch_product", "advance">>
      [] s = "RETURNING_CHANGE" -> <<"_return_change", "advance">>
      [] OTHER -> <<>>

\* VendingMachine._get_transitions
Transitions == <<
    [trigger |-> "start_maintenance", source |-> {"IDLE"}, dest |-> "MAINTENANCE_MODE",
     conditions |-> <<>>, before |-> <<>>],
    [trigger |-> "reload_change", source |-> {"MAINTENANCE_MODE"}, dest |-> "MAINTENANCE_MODE",
     conditions |-> <<>>, before |-> <<"_reload_change">>],
    [trigger |-> "add_products", source |-> {"MAINTENANCE_MODE"}, dest |-> "MAINTENANCE_MODE",
     conditions |-> <<>>, before |-> <<"_add_products">>],
    [trigger |-> "end_maintenance", source |-> {"MAINTENANCE_MODE"}, dest |-> "IDLE",
     conditions |-> <<>>, before |-> <<>>],
    [trigger |-> "start", source |-> {"IDLE"}, dest |-> "PRODUCT_SELECTION",
     conditions |-> <<>>, before |-> <<>>],
    [trigger |-> "cancel", source |-> {"PRODUCT_SELECTION"}, dest |-> "IDLE",
     conditions |-> <<>>, before |-> <<>>],
    [trigger |-> "select", source |-> {"PRODUCT_SELECTION"}, dest |-> "COLLECTING_PAYMENT",
     conditions |-> <<>>, before |-> <<"_select">>],
    [trigger |-> "insert", source |-> {"COLLECTING_PAYMENT"}, dest |-> "COLLECTING_PAYMENT",
     conditions |-> <<>>, before |-> <<"_insert">>],
    [trigger |-> "checkout", source |-> {"COLLECTING_PAYMENT"}, dest |-> "COLLECTING_PAYMENT",
     conditions |-> <<"_not_enough_money">>, before |-> <<>>],
    [trigger |-> "checkout", source |-> {"COLLECTING_PAYMENT"}, dest |-> "DISPATCHING_PRODUCT",
     conditions |-> <<"_can_return_exact_change">>, before |-> <<"_charge_customer">>],
    [trigger |-> "checkout", source |-> {"COLLECTING_PAYMENT"}, dest |-> "CONFIRM_SMALLER_CHANGE",
     conditions |-> <<>>, before |-> <<>>],
    [trigger |-> "accept", source |-> {"CONFIRM_SMALLER_CHANGE"}, dest |-> "DISPATCHING_PRODUCT",
     conditions |-> <<>>, before |-> <<"_charge_customer">>],
    [trigger |-> "advance", source |-> {"DISPATCHING_PRODUCT"}, dest |-> "RETURNING_CHANGE",
     conditions |-> <<>>, before |-> <<>>],
    [trigger |-> "advance", source |-> {"RETURNING_CHANGE"}, dest |-> "IDLE",
     conditions |-> <<>>, before |-> <<>>],
    [trigger |-> "cancel", source |-> {"COLLECTING_PAYMENT", "CONFIRM_SMALLER_CHANGE"},
     dest |-> "RETURNING_CHANGE", conditions |-> <<>>, before |-> <<>>] >>

\* a condition of a transition, by name: [error, value]
condition(m, name) ==
    CASE name = "_not_enough_money" -> _not_enough_money(m)
      [] name = "_can_return_exact_change" -> _can_return_exact_change(m)

RECURSIVE eval_conditions(_, _, _)
\* Transition._eval_conditions after condition names[i] gave c
eval_conditions_next(c, m, names, i) ==
    IF c.error # "none" \/ ~c.value THEN c
    ELSE eval_conditions(m, names, i + 1)

\* Transition._eval_conditions: all conditions hold, evaluated in order
eval_conditions(m, names, i) ==
    IF i > Len(names) THEN [error |-> "none", value |-> TRUE]
    ELSE eval_conditions_next(condition(m, names[i]), m, names, i)

\* mutant of valid_transitions: the source of a transition is not looked at
valid_transitions_any_source(name, s) ==
    SelectSeq(Transitions, LAMBDA t : t.trigger = name)

\* the transitions of a trigger whose source is the current state, in the order added
valid_transitions(name, s) ==
    SelectSeq(Transitions, LAMBDA t : t.trigger = name /\ s \in t.source)

RECURSIVE trigger(_, _, _)
RECURSIVE callbacks(_, _, _, _)

\* one callback, by name; a name that is a trigger fires that trigger (nested call)
callback(m, name, kwargs) ==
    CASE name = "_select" -> _select(m, kwargs)
      [] name = "_insert" -> _insert(m, kwargs)
      [] name = "_add_products" -> _add_products(m, kwargs)
      [] name = "_reload_change" -> _reload_change(m, kwargs)
      [] name = "_charge_customer" -> _charge_customer(m)
      [] name = "_dispatch_product" -> _dispatch_product(m)
      [] name = "_return_change" -> _return_change(m)
      [] name = "advance" -> trigger(m, "advance", NoKwargs)

\* Machine.callbacks: in order; an exception ends the call
callbacks(m, names, i, kwargs) ==
    IF i > Len(names) \/ m.error # "none" THEN m
    ELSE callbacks(callback(m, names[i], kwargs), names, i + 1, kwargs)

\* Transition._change_state: set the state, then the on_enter callbacks of the destination
_change_state(m, dest, kwargs) ==
    callbacks([m EXCEPT !.state = dest], on_enter(dest), 1, kwargs)

\* VendingMachine.on_state_change (after_state_change): logs the transition
on_state_change(m, t, source) ==
    [m EXCEPT !.logged = Append(@, [event |-> t.trigger, source |-> source, dest |-> t.dest])]

\* Transition.execute after _change_state gave m2: the after_state_change callback
execute_after(m2, t, source) ==
    IF m2.error # "none" THEN m2 ELSE on_state_change(m2, t, source)

\* Transition.execute after the before callbacks gave m1
execute_change(m1, t, source, kwargs) ==
    IF m1.error # "none" THEN m1
    ELSE execute_after(_change_state(m1, t.dest, kwargs), t, source)

\* Transition.execute, its conditions having passed
execute(m, t, kwargs) ==
    execute_change(callbacks(m, t.before, 1, kwargs), t, m.state, kwargs)

RECURSIVE _process(_, _, _, _)
\* Event._process after the conditions of candidates[i] gave c
process_candidate(c, m, candidates, i, kwargs) ==
    IF c.error # "none" THEN [m EXCEPT !.error = c.error]
    ELSE IF ~c.value THEN _process(m, candidates, i + 1, kwargs)
    ELSE execute(m, candidates[i], kwargs)

\* Event._process: the first transition whose conditions pass is executed
_process(m, candidates, i, kwargs) ==
    IF i > Len(candidates) THEN m
    ELSE process_candidate(eval_conditions(m, candidates[i].conditions, 1),
                           m, candidates, i, kwargs)

\* mutant of trigger_candidates: invalid triggers are ignored (ignore_invalid_triggers)
trigger_candidates_ignore_invalid(m, candidates, kwargs) ==
    IF candidates = <<>>
    THEN m
    ELSE _process(m, candidates, 1, kwargs)

\* Event._trigger with the transitions found for the current state
trigger_candidates(m, candidates, kwargs) ==
    IF candidates = <<>>
    THEN [m EXCEPT !.error = "MachineError"]
    ELSE _process(m, candidates, 1, kwargs)

\* Event._trigger: MachineError when the current state is no source of the trigger
trigger(m, name, kwargs) ==
    trigger_candidates(m, valid_transitions(name, m.state), kwargs)

-----------------------------------------------------------------------------
(* The machine as constructed, and the calls of its public triggers *)

\* the denominations the inventory dictionary is followed for: the supported ones
\* and the unsupported value the calls are explored with
InventoryKeys == Supported \cup {3}

\* MonetaryInventory(initial_inventory) given to the machine
InitialInventory == [d \in InventoryKeys |-> 0]

\* Stock(catalogue, products) given to the machine: product 2 is sold out,
\* product 3 is in stock without catalogue entry
InitialProducts == (1 :> <<Product(1, 0)>>) @@ (2 :> <<>>) @@ (3 :> <<Product(3, 0)>>)

\* the catalogue of the Stock given to the machine: prices of products 1 and 2
InitialCatalogue == (1 :> 1) @@ (2 :> 2)

\* arguments the calls are explored with
SelectInputs == ProductIDs \cup {None}
InsertInputs == {1, 2, 3, -1}
SupplyInputs == {(1 :> 1), (2 :> 1), (1 :> 2) @@ (2 :> 1), (1 :> 1) @@ (3 :> 1)}
ProductsInputs == {<<Product(1, 0)>>, <<Product(2, 0)>>, <<Product(2, 0), Product(1, 0)>>}

\* the number of p in the sequence ps
Count(ps, p) == Cardinality({i \in 1..Len(ps) : ps[i].id = p})

RECURSIVE ValueOver(_, _)
ValueOver(c, D) ==
    IF D = {} THEN 0
    ELSE LET d == MaxOf(D) IN d * c[d] + ValueOver(c, D \ {d})

\* total value of a mapping denomination -> quantity
Value(c) == ValueOver(c, DOMAIN c)

RECURSIVE CashSent(_)
\* total value of the cash given to DeliverySystem.send_cash in a list of calls
CashSent(calls) ==
    IF calls = <<>> THEN 0
    ELSE (IF Head(calls).call = "send_cash" THEN Value(Head(calls).cash) ELSE 0)
         + CashSent(Tail(calls))

\* the ledger where the totals are not followed
NoLedger == [inserted |-> -1, sent |-> -1, price |-> -1]

\* the ledger of a machine just constructed
ZeroLedger == [inserted |-> 0, sent |-> 0, price |-> 0]

RECURSIVE PriceDispatched(_)
\* total catalogue price of the products given to DeliverySystem.dispatch in a
\* list of calls
PriceDispatched(calls) ==
    IF calls = <<>> THEN 0
    ELSE (IF Head(calls).call = "dispatch" THEN catalogue[Head(calls).product.id] ELSE 0)
         + PriceDispatched(Tail(calls))

\* the ledger after a call that ended with the machine m: an insert that raised
\* nothing has put its unit into the inventory
Booked(m, name, kwargs) ==
    [inserted |-> ledger.inserted
                  + (IF name = "insert" /\ m.error = "none" THEN kwargs.denomination ELSE 0),
     sent |-> ledger.sent + CashSent(m.delivered),
     price |-> ledger.price + PriceDispatched(m.delivered)]

\* the machine at the start of a call
Machine ==
    [state |-> state, selected_product |-> selected_product,
     customer_balance |-> customer_balance, inventory |-> inventory,
     products |-> products,
     delivered |-> <<>>, logged |-> <<>>, error |-> "none"]

\* a call of a public trigger by the embedding application, run to completion
Call(name, kwargs) ==
    \E m \in {trigger(Machine, name, kwargs)} :
        /\ state' = m.state
        /\ selected_product' = m.selected_product
        /\ customer_balance' = m.customer_balance
        /\ inventory' = m.inventory
        /\ products' = m.products
        /\ delivered' = m.delivered
        /\ error' = m.error
        /\ logged' = m.logged
        /\ inserted' = IF m.state = "IDLE" THEN 0
                       ELSE IF name = "insert" /\ m.error = "none"
                            THEN inserted + kwargs.denomination
                            ELSE inserted
        /\ ledger' = IF ledger = NoLedger THEN NoLedger ELSE Booked(m, name, kwargs)

StartMaintenance ==
    /\ Call("start_maintenance", NoKwargs)
    /\ UNCHANGED <<solverVars, stockVars, denominationVars>>

ReloadChange ==
    \E supply \in SupplyInputs :
        /\ \A d \in DOMAIN supply \cap Supported : inventory[d] + supply[d] <= MaxCount
        /\ Call("reload_change", [NoKwargs EXCEPT !.supply = supply])
        /\ UNCHANGED <<solverVars, stockVars, denominationVars>>

AddProducts ==
    \E ps \in ProductsInputs :
        /\ \A p \in ProductIDs : Len(products[p]) + Count(ps, p) <= MaxStock
        /\ Call("add_products", [NoKwargs EXCEPT !.products = ps])
        /\ UNCHANGED <<solverVars, stockVars, denominationVars>>

EndMaintenance ==
    /\ Call("end_maintenance", NoKwargs)
    /\ UNCHANGED <<solverVars, stockVars, denominationVars>>

Start ==
    /\ Call("start", NoKwargs)
    /\ UNCHANGED <<solverVars, stockVars, denominationVars>>

Select ==
    \E product_id \in SelectInputs :
        /\ Call("select", [NoKwargs EXCEPT !.product_id = product_id])
        /\ UNCHANGED <<solverVars, stockVars, denominationVars>>

Insert ==
    \E denomination \in InsertInputs :
        /\ customer_balance + denomination <= MaxBalance
        /\ denomination < 0 => customer_balance >= 0
        /\ denomination \in Supported => inventory[denomination] < MaxCount
        /\ Call("insert", [NoKwargs EXCEPT !.denomination = denomination])
        /\ UNCHANGED <<solverVars, stockVars, denominationVars>>

Checkout ==
    /\ Call("checkout", NoKwargs)
    /\ UNCHANGED <<solverVars, stockVars, denominationVars>>

Accept ==
    /\ Call("accept", NoKwargs)
    /\ UNCHANGED <<solverVars, stockVars, denominationVars>>

Cancel ==
    /\ Call("cancel", NoKwargs)
    /\ UNCHANGED <<solverVars, stockVars, denominationVars>>

Advance ==
    /\ Call("advance", NoKwargs)
    /\ UNCHANGED <<solverVars, stockVars, denominationVars>>

\* no Denomination is constructed on its own
DenominationIdle ==
    /\ denomination_value = 0
    /\ denomination_made = NotConstructed

MachineConstructed ==
    /\ state = "IDLE"
    /\ selected_product = None
    /\ customer_balance = 0
    /\ inventory = InitialInventory
    /\ products = InitialProducts
    /\ catalogue = InitialCatalogue
    /\ enqueued = [p \in ProductIDs |-> <<>>]
    /\ dequeued = [p \in ProductIDs |-> <<>>]
    /\ delivered = <<>>
    /\ error = "none"
    /\ logged = <<>>
    /\ inserted = 0

\* the machine as constructed, its totals not followed
MachineInit ==
    /\ MachineConstructed
    /\ ledger = NoLedger

\* config before find_optimal_change has been called
NotCalled == [owed |-> -2, configuration |-> NoSolution]

Init ==
    /\ MachineInit
    /\ DenominationIdle
    /\ owed_amount = 0
    /\ monetary_inventory = EmptySolution
    /\ config = NotCalled

Next ==
    \/ StartMaintenance
    \/ ReloadChange
    \/ AddProducts
    \/ EndMaintenance
    \/ Start
    \/ Select
    \/ Insert
    \/ Checkout
    \/ Accept
    \/ Cancel
    \/ Advance

Spec == Init /\ [][Next]_vars

\* the machine driven with supported denominations only
InsertSupported ==
    \E denomination \in InsertInputs \cap Supported :
        /\ customer_balance + denomination <= MaxBalance
        /\ inventory[denomination] < MaxCount
        /\ Call("insert", [NoKwargs EXCEPT !.denomination = denomination])
        /\ UNCHANGED <<solverVars, stockVars, denominationVars>>

NextSupported ==
    \/ StartMaintenance
    \/ ReloadChange
    \/ AddProducts
    \/ EndMaintenance
    \/ Start
    \/ Select
    \/ InsertSupported
    \/ Checkout
    \/ Accept
    \/ Cancel
    \/ Advance

SupportedSpec == Init /\ [][NextSupported]_vars

\* the machine driven with supported denominations only, its totals followed
LedgerInit ==
    /\ MachineConstructed
    /\ ledger = ZeroLedger
    /\ DenominationIdle
    /\ owed_amount = 0
    /\ monetary_inventory = EmptySolution
    /\ config = NotCalled

\* the totals are still followed
LedgerOpen == ledger.sent < MaxSent

LedgerNext ==
    \/ LedgerOpen /\ StartMaintenance
    \/ LedgerOpen /\ ReloadChange
    \/ LedgerOpen /\ AddProducts
    \/ LedgerOpen /\ EndMaintenance
    \/ LedgerOpen /\ Start
    \/ LedgerOpen /\ Select
    \/ LedgerOpen /\ ledger.inserted < MaxInserted /\ InsertSupported
    \/ LedgerOpen /\ Checkout
    \/ LedgerOpen /\ Accept
    \/ LedgerOpen /\ Cancel
    \/ LedgerOpen /\ Advance

LedgerSpec == LedgerInit /\ [][LedgerNext]_vars

-----------------------------------------------------------------------------
(* find_optimal_change on its own: arguments drawn from bounded sets *)

SolverDenominations == {1, 2, 5, 10}

SolverInventories ==
    {[d \in Supported |-> IF d \in SolverDenominations THEN q[d] ELSE 0] :
        q \in [SolverDenominations -> 0..MaxQuantity]}

SolverInit ==
    /\ MachineInit
    /\ DenominationIdle
    /\ owed_amount \in 0..MaxOwed
    /\ monetary_inventory \in SolverInventories
    /\ config = NotCalled

FindOptimalChange ==
    /\ config = NotCalled
    /\ config' = find_optimal_change(owed_amount, monetary_inventory)
    /\ UNCHANGED <<owed_amount, monetary_inventory>>
    /\ UNCHANGED machineVars
    /\ UNCHANGED stockVars
    /\ UNCHANGED denominationVars

SolverNext == FindOptimalChange

SolverSpec == SolverInit /\ [][SolverNext]_vars

\* find_optimal_change on inventories of the denominations 50 and 20 with small
\* ones, for amounts that are multiples of ten
UnitsDenominations == {1, 2, 5, 20, 50}

UnitsInventories ==
    {[d \in Supported |-> IF d \in UnitsDenominations THEN q[d] ELSE 0] :
        q \in [UnitsDenominations -> 0..MaxQuantity]}

UnitsInit ==
    /\ MachineInit
    /\ DenominationIdle
    /\ owed_amount \in {10 * k : k \in 0..MaxTens}
    /\ monetary_inventory \in UnitsInventories
    /\ config = NotCalled

UnitsSpec == UnitsInit /\ [][SolverNext]_vars

\* find_optimal_change for the small amounts and for the amounts up to the default
\* of lowest_owed
SentinelInit ==
    /\ MachineInit
    /\ DenominationIdle
    /\ owed_amount \in (0..MaxOwed) \cup {sys_maxsize - k : k \in 0..MaxOwed}
    /\ monetary_inventory \in SolverInventories
    /\ config = NotCalled

SentinelSpec == SentinelInit /\ [][SolverNext]_vars

-----------------------------------------------------------------------------
(* Stock on its own: add_products, get_product and update_catalogue called *)
(* in any order on a Stock constructed without products                    *)

\* catalogues: the one of the machine, a new one that updates product 2 and adds
\* product 3, an empty one, one with another price of product 1
CatalogueInputs ==
    {InitialCatalogue, (2 :> 3) @@ (3 :> 1), [p \in {} |-> 0], (1 :> 2)}

\* the ids of the products given to one call of add_products
IdsInputs == {<<1>>, <<2>>, <<1, 1>>, <<1, 2>>, <<2, 1>>}

\* the machine variables a call on the Stock leaves alone
besideStock == <<state, selected_product, customer_balance, inventory, delivered,
                 logged, inserted, ledger>>

RECURSIVE TotalLen(_, _)
TotalLen(queues, ids) ==
    IF ids = {} THEN 0
    ELSE Len(queues[MaxOf(ids)]) + TotalLen(queues, ids \ {MaxOf(ids)})

\* the number of units put so far
UnitsPut == TotalLen(enqueued, ProductIDs)

\* new Product objects of the ids, numbered after the n units made before
NewProducts(ids, n) == [i \in 1..Len(ids) |-> Product(ids[i], n + i)]

StockInit ==
    /\ state = "IDLE"
    /\ selected_product = None
    /\ customer_balance = 0
    /\ inventory = InitialInventory
    /\ delivered = <<>>
    /\ error = "none"
    /\ logged = <<>>
    /\ inserted = 0
    /\ ledger = NoLedger
    /\ owed_amount = 0
    /\ monetary_inventory = EmptySolution
    /\ config = NotCalled
    /\ catalogue \in CatalogueInputs
    /\ products = [p \in ProductIDs |-> <<>>]
    /\ enqueued = [p \in ProductIDs |-> <<>>]
    /\ dequeued = [p \in ProductIDs |-> <<>>]
    /\ DenominationIdle

StockAddProducts ==
    \E ids \in IdsInputs :
        /\ UnitsPut + Len(ids) <= MaxUnits
        /\ products' = stock_add_products(products, NewProducts(ids, UnitsPut), 1)
        /\ enqueued' = [p \in ProductIDs |->
                           enqueued[p] \o SelectSeq(NewProducts(ids, UnitsPut),
                                                    LAMBDA u : u.id = p)]
        /\ error' = "none"
        /\ UNCHANGED <<catalogue, dequeued, besideStock, solverVars, denominationVars>>

StockGetProduct ==
    \E p \in ProductIDs :
        \E r \in {get_product(products, p)} :
            /\ products' = r.queues
            /\ error' = r.error
            /\ dequeued' = IF r.error = "none"
                           THEN [dequeued EXCEPT ![p] = Append(@, r.product)]
                           ELSE dequeued
            /\ UNCHANGED <<catalogue, enqueued, besideStock, solverVars, denominationVars>>

UpdateCatalogue(new_catalogue) ==
    /\ catalogue' = update_catalogue(catalogue, products, new_catalogue)
    /\ error' = "none"
    /\ UNCHANGED <<products, enqueued, dequeued, besideStock, solverVars, denominationVars>>

StockUpdateCatalogue == \E new_catalogue \in CatalogueInputs : UpdateCatalogue(new_catalogue)

StockNext ==
    \/ StockAddProducts
    \/ StockGetProduct
    \/ StockUpdateCatalogue

StockSpec == StockInit /\ [][StockNext]_vars

-----------------------------------------------------------------------------
(* Denomination on its own: the constructor called with one value *)

DenominationInit ==
    /\ MachineInit
    /\ owed_amount = 0
    /\ monetary_inventory = EmptySolution
    /\ config = NotCalled
    /\ denomination_value \in -MaxValue..MaxValue
    /\ denomination_made = NotConstructed

Construct ==
    /\ denomination_made = NotConstructed
    /\ denomination_made' = Denomination(denomination_value)
    /\ UNCHANGED <<denomination_value, machineVars, solverVars, stockVars>>

DenominationNext == Construct

DenominationSpec == DenominationInit /\ [][DenominationNext]_vars

-----------------------------------------------------------------------------
(* Properties.  What the properties measure. *)

\* the products given to DeliverySystem.dispatch in a list of calls
Dispatched(calls) == SelectSeq(calls, LAMBDA c : c.call = "dispatch")

RECURSIVE SumsOver(_, _)
\* the values of the sub-multisets of an inventory
SumsOver(inv, D) ==
    IF D = {} THEN {0}
    ELSE LET d == MaxOf(D)
         IN {k * d + rest : k \in 0..inv[d], rest \in SumsOver(inv, D \ {d})}

\* some sub-multiset of the inventory has exactly this value
ExactChangeExists(amount, inv) ==
    amount \in SumsOver(inv, {d \in DOMAIN inv : inv[d] > 0})

\* the source states of each trigger, as the transition table of the design gives them
TriggerSources ==
    [start_maintenance |-> {"IDLE"},
     reload_change |-> {"MAINTENANCE_MODE"},
     add_products |-> {"MAINTENANCE_MODE"},
     end_maintenance |-> {"MAINTENANCE_MODE"},
     start |-> {"IDLE"},
     select |-> {"PRODUCT_SELECTION"},
     insert |-> {"COLLECTING_PAYMENT"},
     checkout |-> {"COLLECTING_PAYMENT"},
     accept |-> {"CONFIRM_SMALLER_CHANGE"},
     cancel |-> {"PRODUCT_SELECTION", "COLLECTING_PAYMENT", "CONFIRM_SMALLER_CHANGE"},
     advance |-> {"DISPATCHING_PRODUCT", "RETURNING_CHANGE"}]

\* the step is a call of the trigger
Called(name) ==
    CASE name = "start_maintenance" -> StartMaintenance
      [] name = "reload_change" -> ReloadChange
      [] name = "add_products" -> AddProducts
      [] name = "end_maintenance" -> EndMaintenance
      [] name = "start" -> Start
      [] name = "select" -> Select
      [] name = "insert" -> Insert
      [] name = "checkout" -> Checkout
      [] name = "accept" -> Accept
      [] name = "cancel" -> Cancel
      [] name = "advance" -> Advance

TransactionStates ==
    {"PRODUCT_SELECTION", "COLLECTING_PAYMENT", "CONFIRM_SMALLER_CHANGE",
     "DISPATCHING_PRODUCT", "RETURNING_CHANGE"}

\* the last call executed exactly this one transition
LoggedOnly(name, source, dest) ==
    logged = <<[event |-> name, source |-> source, dest |-> dest]>>

-----------------------------------------------------------------------------
\* C1: a trigger called in a state that is no source of it raises MachineError
\* (the invalid-transition error) and leaves the state, selected_product,
\* customer_balance, the monetary inventory and the stock queues unchanged.
C1_InvalidTriggerRaisesAndChangesNothing ==
    [][\A name \in DOMAIN TriggerSources :
          \/ /\ error' = "MachineError"
             /\ UNCHANGED <<state, selected_product, customer_balance, inventory, products>>
             /\ delivered' = <<>>
          \/ ~(state \notin TriggerSources[name] /\ Called(name))]_vars

\* C1 witness: a trigger was rejected while the customer was asked to confirm
C1_Witness ==
    /\ error = "MachineError"
    /\ state = "CONFIRM_SMALLER_CHANGE"

\* C2: maintenance and transactions exclude each other: MAINTENANCE_MODE is entered
\* only from IDLE (by start_maintenance), a transaction is entered only from IDLE
\* (by start), maintenance is left only to IDLE, and while the machine is in a
\* transaction state reload_change and add_products are rejected: no cash supply
\* is added and no product unit is enqueued.
C2_MaintenanceExclusivity ==
    [][/\ (state' = "MAINTENANCE_MODE" /\ state # "MAINTENANCE_MODE") => state = "IDLE"
       /\ (StartMaintenance /\ error' = "none") => state = "IDLE"
       /\ (Start /\ error' = "none") => state = "IDLE"
       /\ (state' \in TransactionStates /\ state \notin TransactionStates) => state = "IDLE"
       /\ state = "MAINTENANCE_MODE" => state' \in {"MAINTENANCE_MODE", "IDLE"}
       /\ (state \in TransactionStates /\ (ReloadChange \/ AddProducts))
          => /\ error' = "MachineError"
             /\ UNCHANGED <<state, inventory, products>>
       /\ state \in TransactionStates
          => \A p \in ProductIDs : Len(products'[p]) <= Len(products[p])]_vars

\* C2 witness: a trigger was rejected right after start, as start_maintenance is
C2_Witness ==
    /\ error = "MachineError"
    /\ state = "PRODUCT_SELECTION"
    /\ selected_product = None
    /\ customer_balance = 0

\* C3: after a call of a public trigger has finished, normally or with an error,
\* the state is neither DISPATCHING_PRODUCT nor RETURNING_CHANGE.
C3_TransientStatesNeverObserved ==
    state \notin {"DISPATCHING_PRODUCT", "RETURNING_CHANGE"}

\* C4: right after a successful start (state PRODUCT_SELECTION) selected_product
\* is None and customer_balance is 0.
C4_SessionReset ==
    state = "PRODUCT_SELECTION" => (selected_product = None /\ customer_balance = 0)

\* C5: checkout in COLLECTING_PAYMENT with price p of the selected product and
\* balance b: if b < p the state stays COLLECTING_PAYMENT; else if some
\* sub-multiset of the inventory has value b - p the dispatch path is taken with the
\* balance debited by p; otherwise the state becomes CONFIRM_SMALLER_CHANGE with
\* the balance not debited.  So CONFIRM_SMALLER_CHANGE is entered from
\* COLLECTING_PAYMENT only when b >= p and no exact change for b - p exists.
C5_CheckoutGuardOrder ==
    [][(Checkout /\ state = "COLLECTING_PAYMENT" /\ selected_product \in DOMAIN catalogue)
       => LET p == catalogue[selected_product]
              b == customer_balance
          IN /\ IF b < p
                THEN state' = "COLLECTING_PAYMENT" /\ customer_balance' = b
                ELSE IF ExactChangeExists(b - p, inventory)
                     THEN /\ customer_balance' = b - p
                          /\ \/ state' = "IDLE" /\ Len(Dispatched(delivered')) = 1
                             \/ state' = "DISPATCHING_PRODUCT" /\ error' = "Empty"
                     ELSE state' = "CONFIRM_SMALLER_CHANGE" /\ customer_balance' = b
             /\ state' = "CONFIRM_SMALLER_CHANGE"
                => (b >= p /\ ~ExactChangeExists(b - p, inventory))]_vars

\* C5 witness: checkout took the fallback to CONFIRM_SMALLER_CHANGE while the
\* inventory holds cash
C5_Witness ==
    /\ LoggedOnly("checkout", "COLLECTING_PAYMENT", "CONFIRM_SMALLER_CHANGE")
    /\ state = "CONFIRM_SMALLER_CHANGE"
    /\ Value(inventory) > 0

\* C6: checkout in COLLECTING_PAYMENT with a balance below the price of the
\* selected product raises nothing and changes nothing: the state, the balance,
\* the selection, the inventory and the stock stay, nothing is dispatched, no
\* cash is sent.
C6_InsufficientFundsNoEffect ==
    [][(/\ Checkout
        /\ state = "COLLECTING_PAYMENT"
        /\ selected_product \in DOMAIN catalogue
        /\ customer_balance < catalogue[selected_product])
       => /\ error' = "none"
          /\ UNCHANGED <<state, selected_product, customer_balance, inventory, products>>
          /\ delivered' = <<>>]_vars

\* C6 witness: checkout stayed in COLLECTING_PAYMENT with part of the price paid
C6_Witness ==
    /\ LoggedOnly("checkout", "COLLECTING_PAYMENT", "COLLECTING_PAYMENT")
    /\ error = "none"
    /\ selected_product \in DOMAIN catalogue
    /\ customer_balance > 0
    /\ customer_balance < catalogue[selected_product]

\* C7: cancel from COLLECTING_PAYMENT or CONFIRM_SMALLER_CHANGE sends cash whose
\* value is the value inserted since the start of the transaction, removes
\* exactly that cash from the inventory, dequeues no product and ends in IDLE.
C7_CancelReturnsInsertedMoney ==
    [][(Cancel /\ state \in {"COLLECTING_PAYMENT", "CONFIRM_SMALLER_CHANGE"})
       => /\ CashSent(delivered') = inserted
          /\ Value(inventory') = Value(inventory) - inserted
          /\ products' = products
          /\ Dispatched(delivered') = <<>>
          /\ state' = "IDLE"]_vars

\* C8: a checkout that takes the exact-change transition leaves, after the debit,
\* a balance equal to the value of the change removed from the inventory and sent
\* to the customer; the value of the inventory after the transaction is its value
\* before plus the inserted cash minus the change.
C8_ExactChangeRoundTrip ==
    [][(/\ Checkout
        /\ state = "COLLECTING_PAYMENT"
        /\ selected_product \in DOMAIN catalogue
        /\ customer_balance >= catalogue[selected_product]
        /\ ExactChangeExists(customer_balance - catalogue[selected_product], inventory))
       => /\ customer_balance' = CashSent(delivered')
          /\ Value(inventory') = Value(inventory) - CashSent(delivered')]_vars

-----------------------------------------------------------------------------
(* find_optimal_change *)

\* find_optimal_change has returned a configuration
Returned == config # NotCalled /\ config # NoConfiguration

\* the sub-multisets of an inventory, as mappings denomination -> quantity
SubMultisets(inv) ==
    LET D == {d \in DOMAIN inv : inv[d] > 0}
    IN {[d \in DOMAIN inv |-> IF d \in D THEN q[d] ELSE 0] :
           q \in {f \in [D -> 0..MaxOf({inv[d] : d \in D} \cup {0})] :
                     \A d \in D : f[d] <= inv[d]}}

\* the least owed - value over the sub-multisets of value at most owed
MinRemainder(owed, inv) ==
    owed - MaxOf({v \in SumsOver(inv, {d \in DOMAIN inv : inv[d] > 0}) : v <= owed})

\* a differs from b and has the larger quantity at the largest denomination
\* where they differ
LexGreater(a, b) ==
    /\ a # b
    /\ LET d == MaxOf({x \in DOMAIN a : a[x] # b[x]}) IN a[d] > b[d]

\* C9: the owed of the configuration find_optimal_change returns is the minimum of
\* owed_amount - value over all sub-multisets of the inventory whose value is at
\* most owed_amount; so it is 0 whenever a sub-multiset has exactly that value.
C9_MinimalRemainder ==
    config # NotCalled
    => /\ config # NoConfiguration
       /\ config.owed = MinRemainder(owed_amount, monetary_inventory)
       /\ ExactChangeExists(owed_amount, monetary_inventory) => config.owed = 0

\* C9 witness: the inventory is worth more than the amount, no exact change
\* exists, and a part of the amount is returned
C9_Witness ==
    /\ Returned
    /\ config.owed > 0
    /\ config.configuration # EmptySolution
    /\ Value(monetary_inventory) > owed_amount

\* C10: the configuration returned is, among the sub-multisets of the inventory
\* that leave the minimum remainder (the exact ones when there is one), the one
\* whose quantities read from the largest denomination down are
\* lexicographically greatest: the first in the order denominations descending,
\* quantities descending.
C10_LargestDenominationsFirst ==
    Returned
    => LET best == {q \in SubMultisets(monetary_inventory) :
                       Value(q) = owed_amount - MinRemainder(owed_amount, monetary_inventory)}
       IN /\ config.configuration \in best
          /\ \A q \in best : q = config.configuration \/ LexGreater(config.configuration, q)

\* C10 witness: two exact configurations exist and the one returned uses a larger
\* denomination than another one
C10_Witness ==
    /\ Returned
    /\ config.owed = 0
    /\ \E q \in SubMultisets(monetary_inventory) :
          /\ Value(q) = owed_amount
          /\ LexGreater(config.configuration, q)

RECURSIVE UnitsOver(_, _)
UnitsOver(c, D) ==
    IF D = {} THEN 0
    ELSE c[MaxOf(D)] + UnitsOver(c, D \ {MaxOf(D)})

\* the number of monetary units of a mapping denomination -> quantity
Units(c) == UnitsOver(c, DOMAIN c)

\* C11: when the owed amount is exactly representable by the available counts,
\* the configuration find_optimal_change returns has the fewest monetary units
\* among all exact sub-multisets of the inventory.
C11_FewestUnits ==
    (Returned /\ ExactChangeExists(owed_amount, monetary_inventory))
    => \A q \in SubMultisets(monetary_inventory) :
           Value(q) = owed_amount => Units(config.configuration) <= Units(q)

\* what C12 says of one call of find_optimal_change
AlwaysSomeConfiguration ==
    /\ config # NoConfiguration
    /\ owed_amount = 0
       => config = [owed |-> 0, configuration |-> EmptySolution]
    /\ (\A d \in Supported : monetary_inventory[d] > 0 => d > owed_amount)
       => config = [owed |-> owed_amount, configuration |-> EmptySolution]

\* C12 as stated: find_optimal_change returns a configuration for every owed
\* amount >= 0: the empty, exact one when the amount is 0, and the empty one with
\* owed equal to the amount when no denomination with a positive count is worth
\* at most the amount.
C12_AlwaysSomeConfiguration ==
    config # NotCalled => AlwaysSomeConfiguration

\* C12 amended: the same for every owed amount from 0 up to, and not including,
\* sys.maxsize, the default of lowest_owed; from sys.maxsize on, an inventory
\* without any unit gives no configuration.
C12_SomeConfigurationBelowSentinel ==
    (config # NotCalled /\ owed_amount < sys_maxsize) => AlwaysSomeConfiguration

\* C12 witness: the largest amount below the default of lowest_owed, nothing in
\* the inventory: the empty configuration owing the whole amount is returned
C12_Witness ==
    /\ owed_amount = sys_maxsize - 1
    /\ monetary_inventory = EmptySolution
    /\ config = [owed |-> owed_amount, configuration |-> EmptySolution]

-----------------------------------------------------------------------------
(* insert and the monetary inventory *)

\* C13: an insert in COLLECTING_PAYMENT of a denomination that is not supported
\* (or not a valid denomination value) raises an error and leaves the balance, the
\* monetary inventory and the state unchanged.
C13_UnsupportedInsertRejected ==
    [][\A d \in InsertInputs \ Supported :
          (state = "COLLECTING_PAYMENT"
           /\ Call("insert", [NoKwargs EXCEPT !.denomination = d]))
          => /\ error' # "none"
             /\ customer_balance' = customer_balance
             /\ inventory' = inventory
             /\ state' = state]_vars

-----------------------------------------------------------------------------
(* stock and catalogue *)

\* the product ids without catalogue entry
Uncatalogued == ProductIDs \ DOMAIN catalogue

\* C15: no unit of a product id without catalogue entry is ever dequeued or
\* dispatched, even when units of it are in stock; a checkout with such a
\* selection fails with the error of get_price_of and leaves the balance, the
\* inventory, the stock and the state unchanged.
C15_NeverSoldWithoutCatalogueInfo ==
    [][/\ \A p \in Uncatalogued : Len(products'[p]) >= Len(products[p])
       /\ \A i \in 1..Len(delivered') :
              delivered'[i].call = "dispatch" => delivered'[i].product.id \in DOMAIN catalogue
       /\ (Checkout /\ state = "COLLECTING_PAYMENT" /\ selected_product \in Uncatalogued)
          => /\ error' = "RuntimeError"
             /\ customer_balance' = customer_balance
             /\ inventory' = inventory
             /\ products' = products
             /\ state' = state]_vars

\* C15 witness: a checkout of the stocked product without catalogue entry, with
\* money inserted, has failed
C15_Witness ==
    /\ error = "RuntimeError"
    /\ state = "COLLECTING_PAYMENT"
    /\ selected_product \in Uncatalogued
    /\ products[selected_product] # <<>>
    /\ customer_balance > 0

\* C16: after update_catalogue(new) the catalogue has exactly: for every id of
\* new, the info of new; for every id not in new that had an entry and a unit in
\* stock, its old info; no other id.  An id that is new to the catalogue and has
\* no unit in stock is in the catalogue and not in get_offer().
C16_CatalogueMerge ==
    [][\A new \in CatalogueInputs :
          UpdateCatalogue(new)
          => /\ DOMAIN catalogue' =
                    DOMAIN new \cup {p \in DOMAIN catalogue \ DOMAIN new : products[p] # <<>>}
             /\ \A p \in DOMAIN new : catalogue'[p] = new[p]
             /\ \A p \in DOMAIN catalogue' \ DOMAIN new : catalogue'[p] = catalogue[p]
             /\ \A p \in DOMAIN new \ DOMAIN catalogue :
                    products[p] = <<>>
                    => p \in DOMAIN catalogue' /\ p \notin DOMAIN get_offer(catalogue', products')]_vars

\* C16 witness: the catalogue after an update keeps the old entry of a stocked
\* product, has the new price of product 2 and has the unstocked new product 3
C16_Witness ==
    /\ DOMAIN catalogue = {1, 2, 3}
    /\ catalogue[1] = InitialCatalogue[1]
    /\ catalogue[2] = 3
    /\ products[1] # <<>>
    /\ products[3] = <<>>

\* C17: for each product id the units are dequeued in the order in which
\* add_products enqueued them: the units put so far are the units got so far
\* followed by the units still queued, in that order.
C17_StockFIFO ==
    \A p \in ProductIDs : enqueued[p] = dequeued[p] \o products[p]

\* C17 witness: two units of one id were got, a unit of it is still queued
C17_Witness ==
    \E p \in ProductIDs :
        /\ Len(dequeued[p]) >= 2
        /\ products[p] # <<>>

\* C18: reload_change with a supply that has an unsupported denomination fails
\* and changes no count, the counts of the supported denominations of the same
\* supply included; with supported denominations only it adds each quantity to
\* the count of its denomination and leaves every other count unchanged.
C18_BulkSupplyAllOrNothing ==
    [][\A supply \in SupplyInputs :
          (state = "MAINTENANCE_MODE"
           /\ Call("reload_change", [NoKwargs EXCEPT !.supply = supply]))
          => IF DOMAIN supply \subseteq Supported
             THEN /\ error' = "none"
                  /\ \A d \in DOMAIN supply : inventory'[d] = inventory[d] + supply[d]
                  /\ \A d \in DOMAIN inventory \ DOMAIN supply : inventory'[d] = inventory[d]
             ELSE /\ error' = "ValueError"
                  /\ inventory' = inventory]_vars

\* C18 witness: a supply with a supported and an unsupported denomination has been
\* refused by an inventory that holds units of two denominations
C18_Witness ==
    /\ state = "MAINTENANCE_MODE"
    /\ error = "ValueError"
    /\ inventory[1] >= 1
    /\ inventory[2] >= 1

-----------------------------------------------------------------------------
(* Denomination *)

\* C19: Denomination(d) succeeds exactly when 0 <= d <= 100 or d is a positive
\* multiple of 100, and fails for every other integer d.
C19_DenominationValidity ==
    denomination_made # NotConstructed
    => (denomination_made.error = "none"
        <=> \/ 0 <= denomination_value /\ denomination_value <= 100
            \/ \E k \in 1..MaxValue : denomination_value = 100 * k)

\* C19 witness: a multiple of 100 above 100 has been accepted
C19_Witness ==
    /\ denomination_made.error = "none"
    /\ denomination_made.value > 100

-----------------------------------------------------------------------------
(* accept *)

\* the cash given to DeliverySystem.send_cash in a list of calls
SentCash(calls) == SelectSeq(calls, LAMBDA c : c.call = "send_cash")

\* what C20 says of an accept with the selection sp, the price p, the balance b
\* and the inventory inv before the call
AcceptPath(sp, p, b, inv) ==
    /\ customer_balance' = b - p
    /\ Len(Dispatched(delivered')) = 1
    /\ products[sp] # <<>>
    /\ Dispatched(delivered')[1].product = Head(products[sp])
    /\ products' = [products EXCEPT ![sp] = Tail(@)]
    /\ selected_product' = None
    /\ IF b - p = 0 \/ MinRemainder(b - p, inv) = b - p
       THEN SentCash(delivered') = <<>> /\ inventory' = inv
       ELSE /\ Len(SentCash(delivered')) = 1
            /\ Value(SentCash(delivered')[1].cash) = (b - p) - MinRemainder(b - p, inv)
            /\ \A d \in DOMAIN inv :
                   inventory'[d] = inv[d] - (IF d \in Supported
                                             THEN SentCash(delivered')[1].cash[d] ELSE 0)
    /\ state' = "IDLE"

\* C20: accept in CONFIRM_SMALLER_CHANGE debits the balance by the price of the
\* selected product, dequeues and dispatches exactly one unit of it and clears the
\* selection, then removes from the inventory and sends the minimum-remainder
\* configuration for the debited balance (nothing, without a send_cash call, when
\* that configuration is empty or the debited balance is 0), and ends in IDLE.
C20_AcceptPath ==
    [][(Accept /\ state = "CONFIRM_SMALLER_CHANGE" /\ selected_product \in DOMAIN catalogue)
       => AcceptPath(selected_product, catalogue[selected_product],
                     customer_balance, inventory)]_vars

-----------------------------------------------------------------------------
(* the effect of insert *)

\* C21: an insert of a supported denomination d in COLLECTING_PAYMENT raises
\* nothing, increases customer_balance by exactly d and the inventory count of d
\* by exactly 1, and leaves the state (COLLECTING_PAYMENT), selected_product,
\* every other inventory count and the stock queues unchanged.
C21_InsertEffect ==
    [][\A d \in InsertInputs \cap Supported :
          (state = "COLLECTING_PAYMENT"
           /\ Call("insert", [NoKwargs EXCEPT !.denomination = d]))
          => /\ error' = "none"
             /\ customer_balance' = customer_balance + d
             /\ inventory' = [inventory EXCEPT ![d] = @ + 1]
             /\ state' = "COLLECTING_PAYMENT"
             /\ selected_product' = selected_product
             /\ products' = products
             /\ delivered' = <<>>]_vars

\* C21 witness: a 1 and a 2 have been inserted for the selected product, the last
\* call being an insert
C21_Witness ==
    /\ LoggedOnly("insert", "COLLECTING_PAYMENT", "COLLECTING_PAYMENT")
    /\ error = "none"
    /\ selected_product = 2
    /\ customer_balance = 3
    /\ inventory[1] = 1
    /\ inventory[2] = 1

-----------------------------------------------------------------------------
(* the balance *)

\* C22: customer_balance >= 0 in every reachable state, whatever triggers are
\* called with whatever arguments and whether the calls succeed or are rejected;
\* the debit by the price in checkout and accept never makes it negative.
C22_BalanceNonNegative == customer_balance >= 0

-----------------------------------------------------------------------------
(* the return of change and the inventory *)

\* c = find_optimal_change(owed, inv), when it is a configuration: every quantity
\* is within the count of its denomination, value + owed left is the amount asked
\* for, and remove_change of it succeeds and takes exactly these units
ConfigurationWithin(c, owed, inv) ==
    /\ \A d \in DOMAIN c.configuration :
           /\ c.configuration[d] >= 0
           /\ c.configuration[d] <= inv[d]
    /\ Value(c.configuration) + c.owed = owed
    /\ remove_change(inv, c.configuration) =
           [error |-> "none",
            inventory |-> [d \in DOMAIN inv |->
                              IF d \in DOMAIN c.configuration
                              THEN inv[d] - c.configuration[d] ELSE inv[d]]]

\* the call has entered RETURNING_CHANGE, so that _return_change has run
ReturnChangeCalled ==
    \/ state' = "RETURNING_CHANGE"
    \/ \E i \in 1..Len(logged') : logged'[i].dest = "RETURNING_CHANGE"

\* what C23 says of the configuration _return_change has asked for: the amount is
\* the balance after the debit, the inventory the one before the call
ReturnChangeWithin ==
    \/ find_optimal_change(customer_balance', inventory) = NoConfiguration
    \/ ConfigurationWithin(find_optimal_change(customer_balance', inventory),
                           customer_balance', inventory)

\* the call has removed from the inventory exactly the one configuration it has
\* given to send_cash
RemovedWhatWasSent ==
    /\ Len(SentCash(delivered')) = 1
    /\ \A d \in DOMAIN inventory :
           inventory'[d] = inventory[d] - (IF d \in DOMAIN SentCash(delivered')[1].cash
                                           THEN SentCash(delivered')[1].cash[d] ELSE 0)

\* C23: every configuration find_optimal_change returns for the inventory of the
\* machine has each quantity within the available count of its denomination and
\* satisfies value + owed = owed_amount, so remove_change never underflows: the
\* only RuntimeError a call raises is the one of get_price_of in checkout or
\* accept, no count becomes negative, and a call that sends cash or lowers a
\* count has removed exactly the configuration it sent.
C23_NoInventoryUnderflow ==
    [][/\ ReturnChangeCalled => ReturnChangeWithin
       /\ error' = "RuntimeError"
          => ((Checkout \/ Accept) /\ selected_product \notin DOMAIN catalogue)
       /\ \A d \in DOMAIN inventory' : inventory'[d] >= 0
       /\ (SentCash(delivered') # <<>> \/ \E d \in DOMAIN inventory : inventory'[d] < inventory[d])
          => RemovedWhatWasSent]_vars

\* C23 witness: a cancel has sent a 2 and a 1 and thereby taken the last 1 of the
\* inventory
C23_Witness ==
    /\ Len(SentCash(delivered)) = 1
    /\ SentCash(delivered)[1].cash[2] = 1
    /\ SentCash(delivered)[1].cash[1] = 1
    /\ inventory[1] = 0
    /\ Dispatched(delivered) = <<>>
    /\ error = "none"
    /\ state = "IDLE"

-----------------------------------------------------------------------------
(* the charge and the dispatch *)

\* C24: whenever checkout or accept debits customer_balance by the price, one
\* unit of the selected product is dequeued and dispatched within the same call;
\* no call attempts to dequeue from an empty product queue (queue.Empty is never
\* raised).
C24_ChargedImpliesDispatched ==
    [][/\ error' # "Empty"
       /\ (customer_balance' < customer_balance /\ (Checkout \/ Accept))
          => /\ selected_product \in DOMAIN catalogue
             /\ customer_balance' = customer_balance - catalogue[selected_product]
             /\ products[selected_product] # <<>>
             /\ products' = [products EXCEPT ![selected_product] = Tail(@)]
             /\ Len(Dispatched(delivered')) = 1
             /\ Dispatched(delivered')[1].product = Head(products[selected_product])]_vars

-----------------------------------------------------------------------------
(* the totals *)

\* C25: over any sequence of triggers from the initial state, the total value of
\* the cash sent to customers never exceeds the total value of the cash inserted
\* minus the total price of the products dispatched.
C25_NoMoneyLeak == ledger.sent <= ledger.inserted - ledger.price

-----------------------------------------------------------------------------
(* the way back to IDLE *)

\* the triggers whose transitions lead towards IDLE
HomeTriggers == {"end_maintenance", "cancel", "advance"}

\* some call of a trigger in this state ends in IDLE
SomeTriggerLeadsToIdle ==
    \/ state = "IDLE"
    \/ \E name \in HomeTriggers : trigger(Machine, name, NoKwargs).state = "IDLE"

\* the call ends a transaction: a cancel, an accept, or a checkout of a paid
\* product for which exact change exists
EndsTransaction ==
    \/ Cancel /\ state \in {"PRODUCT_SELECTION", "COLLECTING_PAYMENT", "CONFIRM_SMALLER_CHANGE"}
    \/ Accept /\ state = "CONFIRM_SMALLER_CHANGE"
    \/ /\ Checkout
       /\ state = "COLLECTING_PAYMENT"
       /\ selected_product \in DOMAIN catalogue
       /\ customer_balance >= catalogue[selected_product]
       /\ ExactChangeExists(customer_balance - catalogue[selected_product], inventory)

\* C26: no reachable state is terminal: in every reachable state some trigger
\* leads back to IDLE, and every call that ends a transaction (a checkout with
\* exact change, an accept or a cancel) runs through to IDLE.
C26_NoTerminalState ==
    [][/\ SomeTriggerLeadsToIdle
       /\ EndsTransaction => state' = "IDLE"]_vars

====
